---------------------------- MODULE Spec2Model ----------------------------
(* A model of the QOI decoder of src/src/main.rs: the header parser        *)
(* QOI::new, the decode loop decode_pixels and its six opcode handlers.    *)
(* Bytes are the integers 0..255.  Offsets are 0-based as in the source;   *)
(* At(data, k) is data[k].  Values of type u32 and usize are kept as       *)
(* little-endian sequences of base-256 digits ("limbs"), so the products   *)
(* width * height * 4 of lines 55 and 104 keep their width and their       *)
(* overflow is visible.                                                    *)
EXTENDS Integers, Sequences, FiniteSets

VARIABLES
    buffer,           \* the bytes of the file, as read at line 22
    overflow_checks,  \* build profile: TRUE = arithmetic overflow panics (debug),
                      \* FALSE = it wraps (release)
    pc,               \* "new", "decode", "loop", "after", "done"
    width, height,    \* QOI.width, QOI.height (u32, 4 limbs)
    data,             \* QOI.data, the payload
    capacity,         \* the capacity computed at line 55 (u32, 4 limbs)
    index,            \* the colour cache, slots 0..63
    pixels,           \* the output Vec<u8>
    prev_pixel,       \* [r, g, b, a]
    i,                \* the cursor into data
    result,           \* what the program returned: kind "None", "Ok", "Err", "Panic"
    reads,            \* history: the offsets of data read so far
    written,          \* history: the cache slots written so far
    last              \* history: the instruction executed by the last loop iteration

vars == <<buffer, overflow_checks, pc, width, height, data, capacity, index,
          pixels, prev_pixel, i, result, reads, written, last>>

-----------------------------------------------------------------------------
(* Bounds of the model *)

\* the payloads are concatenations of at most MaxChunks chunks
MaxChunks == 2

-----------------------------------------------------------------------------
(* Fixed-width arithmetic *)

At(s, k) == s[k + 1]

\* data[a..b] of the source: offsets a..b-1
Slice(s, a, b) == SubSeq(s, a + 1, b)

RECURSIVE Zeros(_)
Zeros(n) == IF n = 0 THEN <<>> ELSE <<0>> \o Zeros(n - 1)

\* a small non-negative integer as n limbs
RECURSIVE ToLimbs(_, _)
ToLimbs(v, n) == IF n = 0 THEN <<>> ELSE <<v % 256>> \o ToLimbs(v \div 256, n - 1)

\* the value of limbs that is known to be small
RECURSIVE LimbsToInt(_)
LimbsToInt(a) == IF a = <<>> THEN 0 ELSE a[1] + 256 * LimbsToInt(Tail(a))

\* a < b for limb sequences of the same length
LimbsLess(a, b) ==
    \E x \in {a}, y \in {b} :
        \E k \in 1..Len(x) : x[k] < y[k] /\ \A j \in (k + 1)..Len(x) : x[j] = y[j]

\* the number of limbs of a up to its highest non-zero one
Digits(a) == Cardinality({ k \in 1..Len(a) : \E j \in k..Len(a) : a[j] # 0 })

\* column k (0-based) of the schoolbook product of a and b: the sum of the
\* a[j] * b[k - j] for j from lo to hi
RECURSIVE ColSum(_, _, _, _, _)
ColSum(a, b, k, lo, hi) ==
    IF lo > hi THEN 0
    ELSE At(a, lo) * At(b, k - lo) + ColSum(a, b, k, lo + 1, hi)

Max(x, y) == IF x >= y THEN x ELSE y

Min(x, y) == IF x <= y THEN x ELSE y

\* the limbs k, k + 1, ..., n - 1 of the product of a (la digits) and b (lb digits)
RECURSIVE MulFrom(_, _, _, _, _, _, _)
RECURSIVE MulStep(_, _, _, _, _, _, _)
MulFrom(a, la, b, lb, k, carry, n) ==
    IF k = n THEN <<>>
    ELSE IF k >= la + lb THEN <<0>> \o MulFrom(a, la, b, lb, k + 1, 0, n)
    ELSE CHOOSE r \in { MulStep(a, la, b, lb, k, s, n) :
                         s \in {ColSum(a, b, k, Max(0, k - lb + 1), Min(k, la - 1)) + carry} } : TRUE

MulStep(a, la, b, lb, k, s, n) ==
    <<s % 256>> \o MulFrom(a, la, b, lb, k + 1, s \div 256, n)

\* the exact product, Len(a) + Len(b) limbs
MulLimbs(a, b) ==
    CHOOSE r \in { MulFrom(a, la, b, lb, 0, 0, Len(a) + Len(b)) :
                     la \in {Digits(a)}, lb \in {Digits(b)} } : TRUE

\* the low n limbs of p and whether a higher limb is set
Wrapped(p, n) ==
    [val |-> SubSeq(p, 1, n), ovf |-> Digits(p) > n]

\* a * b in an unsigned type of n bytes: the wrapped value and whether it overflowed
MulWidth(a, b, n) ==
    CHOOSE r \in { Wrapped(p, n) : p \in { MulLimbs(x, y) : x \in {a}, y \in {b} } } : TRUE

\* u8::wrapping_sub, u8::wrapping_add
wrapping_sub(a, b) == (a - b + 256) % 256

wrapping_add(a, b) == (a + b) % 256

\* `x as i8` for a u8 x, and `x as u8` for an i8 x
as_i8(x) == IF x >= 128 THEN x - 256 ELSE x

as_u8(x) == (x + 256) % 256

\* a + b in i8: the wrapped value and whether it overflowed
i8_add(a, b) ==
    LET s == a + b
    IN  [val |-> as_i8((s + 256) % 256), ovf |-> s < -128 \/ s > 127]

-----------------------------------------------------------------------------
(* The inputs *)

MAGIC == <<113, 111, 105, 102>>       \* 'q', 'o', 'i', 'f'

END_MARKER == <<0, 0, 0, 0, 0, 0, 0, 1>>

\* width and height fields as they lie in the file (big-endian)
\* 1 x 1, 2 x 1, 0 x 2, 65536 x 16384 (the product * 4 is 2^32) and
\* 2^31 x 2^31 (the product * 4 is 2^64)
DimPairs ==
    { <<<<0, 0, 0, 1>>, <<0, 0, 0, 1>>>>,
      <<<<0, 0, 0, 2>>, <<0, 0, 0, 1>>>>,
      <<<<0, 0, 0, 0>>, <<0, 0, 0, 2>>>>,
      <<<<0, 1, 0, 0>>, <<0, 0, 64, 0>>>>,
      <<<<128, 0, 0, 0>>, <<128, 0, 0, 0>>>> }

BAD_MAGIC == <<113, 111, 105, 103>>   \* 'q', 'o', 'i', 'g'

\* the magic, and magics that differ from it in the last and in the first byte
Magics == { MAGIC, BAD_MAGIC, <<81, 111, 105, 102>> }

\* a header: magic, width, height, channels = 4, colorspace = 0
Header(m, d) == m \o d[1] \o d[2] \o <<4, 0>>

Chunks ==
    { <<254, 5, 6, 7>>,           \* RGB
      <<254>>,                    \* RGB opcode alone
      <<255, 10, 20, 30, 40>>,    \* RGBA
      <<255, 0, 0>>,              \* RGBA opcode with two operands
      <<255>>,                    \* RGBA opcode alone
      END_MARKER,
      <<0>>,                      \* INDEX 0
      <<53>>,                     \* INDEX 53, the slot of (0,0,0,255)
      <<64>>,                     \* DIFF -2 -2 -2
      <<121>>,                    \* DIFF +1 0 -1
      <<160, 136>>,               \* LUMA, every field at its bias
      <<128>>,                    \* LUMA opcode alone (dg = -32)
      <<192>>,                    \* RUN 1
      <<253>> }                   \* RUN 62

RECURSIVE Payloads(_)
Payloads(n) ==
    IF n = 0 THEN { <<>> }
    ELSE LET P == Payloads(n - 1) IN P \cup { p \o c : p \in P, c \in Chunks }

Prefixes(s) == { SubSeq(s, 1, n) : n \in 0..Len(s) }

\* files shorter than a header, with a good and with a bad magic
ShortFiles ==
    UNION { { f \in Prefixes(h) : Len(f) < 14 } :
            h \in { m \o <<0, 0, 0, 1, 0, 0, 0, 1, 4, 0>> : m \in Magics } }

Files ==
    ShortFiles
    \cup { Header(MAGIC, d) \o p : d \in DimPairs, p \in Payloads(MaxChunks) }
    \cup { Header(m, d) \o p : m \in Magics \ {MAGIC}, d \in DimPairs,
                                p \in Payloads(1) }

-----------------------------------------------------------------------------
(* The state after construction: a file has been read, nothing is parsed *)

NoResult == [kind |-> "None", msg |-> "", buf |-> <<>>]

Ok(buf) == [kind |-> "Ok", msg |-> "", buf |-> buf]

Err(msg) == [kind |-> "Err", msg |-> msg, buf |-> <<>>]

Panic(msg) == [kind |-> "Panic", msg |-> msg, buf |-> <<>>]

\* history record of a loop iteration: the arm taken, the cursor, previous
\* pixel and output length it started with, whether the cache slot an INDEX
\* names was unwritten, whether the handler returned Ok and whether one of
\* its checked additions overflowed, and the number of loop iterations so far
NoInstr == [op |-> "none", at |-> 0, prev |-> <<0, 0, 0, 0>>, len |-> 0,
            fresh |-> FALSE, ok |-> FALSE, ovf |-> FALSE, n |-> 0]

\* the cache filled with the start pixel
start_index == [s \in 0..63 |-> <<0, 0, 0, 255>>]

\* line 54
new_index == [s \in 0..63 |-> <<0, 0, 0, 0>>]

\* line 56
start_pixel == <<0, 0, 0, 255>>

InitWith(F) ==
    /\ buffer \in F
    /\ overflow_checks \in BOOLEAN
    /\ pc = "new"
    /\ width = Zeros(4)
    /\ height = Zeros(4)
    /\ data = <<>>
    /\ capacity = Zeros(4)
    /\ index = [s \in 0..63 |-> <<0, 0, 0, 0>>]
    /\ pixels = <<>>
    /\ prev_pixel = <<0, 0, 0, 0>>
    /\ i = 0
    /\ result = NoResult
    /\ reads = {}
    /\ written = {}
    /\ last = NoInstr

Init == InitWith(Files)

-----------------------------------------------------------------------------
(* QOI::new, lines 20-49 *)

\* the fields read least significant byte first
le_u32(b0, b1, b2, b3) == <<b0, b1, b2, b3>>

\* (b0 as u32) << 24 | (b1 as u32) << 16 | (b2 as u32) << 8 | b3 as u32
be_u32(b0, b1, b2, b3) == <<b3, b2, b1, b0>>

\* the outcome of the parser on a file
parse_header(buf) ==
    IF Len(buf) < 14 THEN [err |-> "File too small"]
    ELSE IF SubSeq(buf, 1, 4) # MAGIC THEN [err |-> "Invalid magic number"]
    ELSE [err |-> "",
          width |-> be_u32(At(buf, 4), At(buf, 5), At(buf, 6), At(buf, 7)),
          height |-> be_u32(At(buf, 8), At(buf, 9), At(buf, 10), At(buf, 11)),
          data |-> Slice(buf, 14, Len(buf))]

QOI_new ==
    /\ pc = "new"
    /\ \E h \in {parse_header(buffer)} :
         IF h.err # ""
         THEN /\ pc' = "done"
              /\ result' = Err(h.err)
              /\ UNCHANGED <<width, height, data>>
         ELSE /\ pc' = "decode"
              /\ width' = h.width
              /\ height' = h.height
              /\ data' = h.data
              /\ UNCHANGED result
    /\ UNCHANGED <<buffer, overflow_checks, capacity, index, pixels, prev_pixel,
                   i, reads, written, last>>

-----------------------------------------------------------------------------
(* decode_pixels, lines 53-58: the locals are created *)

\* file.width * file.height * 4 in u32 (line 55)
buffer_size(w, h) ==
    LET m1 == MulWidth(w, h, 4)
        m2 == MulWidth(m1.val, ToLimbs(4, 4), 4)
    IN  [val |-> m2.val, ovf |-> m1.ovf \/ m2.ovf]

decode_begin ==
    /\ pc = "decode"
    /\ \E c \in {buffer_size(width, height)} :
         IF c.ovf /\ overflow_checks
         THEN /\ pc' = "done"
              /\ result' = Panic("attempt to multiply with overflow")
              /\ UNCHANGED <<capacity, prev_pixel>>
         ELSE /\ pc' = "loop"
              /\ capacity' = c.val
              /\ prev_pixel' = start_pixel
              /\ UNCHANGED result
    /\ index' = new_index
    /\ pixels' = <<>>
    /\ i' = 0
    /\ UNCHANGED <<buffer, overflow_checks, width, height, data, reads, written,
                   last>>

-----------------------------------------------------------------------------
(* The opcode handlers, lines 115-189.  A handler returns what it did to   *)
(* its &mut arguments, the byte count it returns, the offsets of data it   *)
(* read and whether one of its checked additions overflowed.               *)

Fail(msg, px, pp) ==
    [err |-> msg, pixels |-> px, prev_pixel |-> pp, n |-> 0, rd |-> {},
     ovf |-> FALSE]

Done(px, pp, n, rd, ovf) ==
    [err |-> "", pixels |-> px, prev_pixel |-> pp, n |-> n, rd |-> rd,
     ovf |-> ovf]

\* the pixel appended before previous_pixel is updated
handle_rgb_stale(d, px, pp, k) ==
    IF k + 3 >= Len(d)
    THEN Fail("Unexpected end of file for QOI_OP_RGB", px, pp)
    ELSE LET q == <<At(d, k + 1), At(d, k + 2), At(d, k + 3), 255>>
         IN  Done(px \o pp, q, 4, {k + 1, k + 2, k + 3}, FALSE)

handle_rgb(d, px, pp, k) ==
    IF k + 3 >= Len(d)
    THEN Fail("Unexpected end of file for QOI_OP_RGB", px, pp)
    ELSE LET q == <<At(d, k + 1), At(d, k + 2), At(d, k + 3), 255>>
         IN  Done(px \o q, q, 4, {k + 1, k + 2, k + 3}, FALSE)

\* the bounds check asking for one byte more
handle_rgba_strict(d, px, pp, k) ==
    IF k + 5 >= Len(d)
    THEN Fail("Unexpected end of file for QOI_OP_RGBA", px, pp)
    ELSE LET q == <<At(d, k + 1), At(d, k + 2), At(d, k + 3), At(d, k + 4)>>
         IN  Done(px \o q, q, 5, {k + 1, k + 2, k + 3, k + 4}, FALSE)

\* the literal alpha replaced by 255, as for an RGB instruction
handle_rgba_opaque(d, px, pp, k) ==
    IF k + 4 >= Len(d)
    THEN Fail("Unexpected end of file for QOI_OP_RGBA", px, pp)
    ELSE LET q == <<At(d, k + 1), At(d, k + 2), At(d, k + 3), 255>>
         IN  Done(px \o q, q, 5, {k + 1, k + 2, k + 3, k + 4}, FALSE)

handle_rgba(d, px, pp, k) ==
    IF k + 4 >= Len(d)
    THEN Fail("Unexpected end of file for QOI_OP_RGBA", px, pp)
    ELSE LET q == <<At(d, k + 1), At(d, k + 2), At(d, k + 3), At(d, k + 4)>>
         IN  Done(px \o q, q, 5, {k + 1, k + 2, k + 3, k + 4}, FALSE)

\* the handler returning 0, the cursor left on the opcode byte
handle_index_stuck(idx, px, pp, pixel) ==
    IF pixel >= 64
    THEN Fail("Index out of bounds for QOI_OP_INDEX", px, pp)
    ELSE LET q == idx[pixel]
         IN  Done(px \o q, q, 0, {}, FALSE)

handle_index(idx, px, pp, pixel) ==
    IF pixel >= 64
    THEN Fail("Index out of bounds for QOI_OP_INDEX", px, pp)
    ELSE LET q == idx[pixel]
         IN  Done(px \o q, q, 1, {}, FALSE)

\* the differences applied with saturation instead of wraparound
handle_diff_saturating(px, pp, pixel) ==
    LET dr == ((pixel \div 16) % 4) - 2
        dg == ((pixel \div 4) % 4) - 2
        db == (pixel % 4) - 2
        q  == <<Max(0, Min(255, pp[1] + dr)), Max(0, Min(255, pp[2] + dg)),
                Max(0, Min(255, pp[3] + db)), pp[4]>>
    IN  Done(px \o q, q, 1, {}, FALSE)

handle_diff(px, pp, pixel) ==
    LET dr == wrapping_sub((pixel \div 16) % 4, 2)
        dg == wrapping_sub((pixel \div 4) % 4, 2)
        db == wrapping_sub(pixel % 4, 2)
        q  == <<wrapping_add(pp[1], dr), wrapping_add(pp[2], dg),
                wrapping_add(pp[3], db), pp[4]>>
    IN  Done(px \o q, q, 1, {}, FALSE)

\* the red and blue differences applied without the green difference added
handle_luma_plain(d, px, pp, k) ==
    IF k + 1 >= Len(d)
    THEN Fail("Unexpected end of file for QOI_OP_LUMA", px, pp)
    ELSE LET vg == wrapping_sub(At(d, k) % 64, 32)
             second_byte == At(d, k + 1)
             dr_dg == wrapping_sub((second_byte \div 16) % 16, 8)
             db_dg == wrapping_sub(second_byte % 16, 8)
             q  == <<wrapping_add(pp[1], dr_dg), wrapping_add(pp[2], vg),
                     wrapping_add(pp[3], db_dg), pp[4]>>
         IN  Done(px \o q, q, 2, {k, k + 1}, FALSE)

handle_luma(d, px, pp, k) ==
    IF k + 1 >= Len(d)
    THEN Fail("Unexpected end of file for QOI_OP_LUMA", px, pp)
    ELSE LET vg == wrapping_sub(At(d, k) % 64, 32)
             second_byte == At(d, k + 1)
             dr_dg == wrapping_sub((second_byte \div 16) % 16, 8)
             db_dg == wrapping_sub(second_byte % 16, 8)
             sr == i8_add(as_i8(vg), as_i8(dr_dg))
             sb == i8_add(as_i8(vg), as_i8(db_dg))
             q  == <<wrapping_add(pp[1], as_u8(sr.val)),
                     wrapping_add(pp[2], as_u8(as_i8(vg))),
                     wrapping_add(pp[3], as_u8(sb.val)), pp[4]>>
         IN  Done(px \o q, q, 2, {k, k + 1}, sr.ovf \/ sb.ovf)

\* n copies of q, one after the other
Repeat(q, n) == [k \in 1..(n * Len(q)) |-> q[((k - 1) % Len(q)) + 1]]

\* the run length taken without its bias
handle_run_nobias(px, pp, pixel, w, h) ==
    Done(px \o Repeat(pp, pixel % 64), pp, 1, {}, FALSE)

handle_run(px, pp, pixel, w, h) ==
    LET run_length == (pixel % 64) + 1
    IN  Done(px \o Repeat(pp, run_length), pp, 1, {}, FALSE)

-----------------------------------------------------------------------------
(* decode_pixels, lines 58-102: the loop *)

\* the marker recognised only when a byte follows it
at_end_marker_strict(d, k) == k + 8 < Len(d) /\ Slice(d, k, k + 8) = END_MARKER

\* line 60
\* the marker also recognised one byte after the cursor
at_end_marker_lookahead(d, k) ==
    \E j \in {k, k + 1} : j + 8 <= Len(d) /\ Slice(d, j, j + 8) = END_MARKER

at_end_marker(d, k) == k + 8 <= Len(d) /\ Slice(d, k, k + 8) = END_MARKER

\* the offsets line 60 reads
\* the eight bytes compared without the length test
marker_reads_unguarded(d, k) == k..(k + 7)

marker_reads(d, k) == IF k + 8 <= Len(d) THEN k..(k + 7) ELSE {}

\* the INDEX arm testing one bit instead of two
opcode_one_bit(pixel) ==
    IF pixel = 254 THEN "RGB"
    ELSE IF pixel = 255 THEN "RGBA"
    ELSE IF pixel \div 128 = 0 THEN "INDEX"
    ELSE IF pixel \div 64 = 1 THEN "DIFF"
    ELSE IF pixel \div 64 = 2 THEN "LUMA"
    ELSE IF pixel \div 64 = 3 THEN "RUN"
    ELSE "UNKNOWN"

\* the match of lines 66-92, its arms in order
opcode(pixel) ==
    IF pixel = 254 THEN "RGB"
    ELSE IF pixel = 255 THEN "RGBA"
    ELSE IF pixel \div 64 = 0 THEN "INDEX"
    ELSE IF pixel \div 64 = 1 THEN "DIFF"
    ELSE IF pixel \div 64 = 2 THEN "LUMA"
    ELSE IF pixel \div 64 = 3 THEN "RUN"
    ELSE "UNKNOWN"

\* the hash taken of the colour channels only
hash_no_alpha(pp) == (pp[1] * 3 + pp[2] * 5 + pp[3] * 7) % 64

\* lines 95-99
hash(pp) == (pp[1] * 3 + pp[2] * 5 + pp[3] * 7 + pp[4] * 11) % 64

\* line 100
\* the pixel stored one slot after its hash
update_index_next(idx, pp) == [idx EXCEPT ![(hash(pp) + 1) % 64] = pp]

update_index(idx, pp) == [idx EXCEPT ![hash(pp)] = pp]

call(op) ==
    LET pixel == At(data, i) IN
    CASE op = "RGB"   -> handle_rgb(data, pixels, prev_pixel, i)
      [] op = "RGBA"  -> handle_rgba(data, pixels, prev_pixel, i)
      [] op = "INDEX" -> handle_index(index, pixels, prev_pixel, pixel)
      [] op = "DIFF"  -> handle_diff(pixels, prev_pixel, pixel)
      [] op = "LUMA"  -> handle_luma(data, pixels, prev_pixel, i)
      [] op = "RUN"   -> handle_run(pixels, prev_pixel, pixel, width, height)

\* lines 59-65: the loop body is entered, no end marker lies at the cursor
\* and the byte at the cursor is matched by the arm of op
Dispatched(op) ==
    /\ pc = "loop"
    /\ i < Len(data)
    /\ ~at_end_marker(data, i)
    /\ opcode(At(data, i)) = op

\* the cache updated with the pixel the instruction started with
Exec_stale(op) ==
    \E r \in {call(op)} :
        /\ reads' = reads \cup marker_reads(data, i) \cup {i} \cup r.rd
        /\ last' = [op |-> op, at |-> i, prev |-> prev_pixel, len |-> Len(pixels),
                    fresh |-> op = "INDEX" /\ At(data, i) \notin written,
                    ok |-> r.err = "", ovf |-> r.ovf, n |-> last.n + 1]
        /\ IF r.err # ""
             THEN /\ pc' = "done"
                  /\ result' = Err(r.err)
                  /\ UNCHANGED <<index, pixels, prev_pixel, i, written>>
             ELSE IF r.ovf /\ overflow_checks
             THEN /\ pc' = "done"
                  /\ result' = Panic("attempt to add with overflow")
                  /\ UNCHANGED <<index, pixels, prev_pixel, i, written>>
             ELSE /\ pixels' = r.pixels
                  /\ prev_pixel' = r.prev_pixel
                  /\ i' = i + r.n
                  /\ index' = update_index(index, prev_pixel)
                  /\ written' = written \cup {hash(prev_pixel)}
                  /\ UNCHANGED <<pc, result>>
        /\ UNCHANGED <<buffer, overflow_checks, width, height, data, capacity>>

\* lines 66-100: the handler of op is called, then the cursor and the cache
\* are updated
Exec(op) ==
    \E r \in {call(op)} :
        /\ reads' = reads \cup marker_reads(data, i) \cup {i} \cup r.rd
        /\ last' = [op |-> op, at |-> i, prev |-> prev_pixel, len |-> Len(pixels),
                    fresh |-> op = "INDEX" /\ At(data, i) \notin written,
                    ok |-> r.err = "", ovf |-> r.ovf, n |-> last.n + 1]
        /\ IF r.err # ""
             THEN /\ pc' = "done"
                  /\ result' = Err(r.err)
                  /\ UNCHANGED <<index, pixels, prev_pixel, i, written>>
             ELSE IF r.ovf /\ overflow_checks
             THEN /\ pc' = "done"
                  /\ result' = Panic("attempt to add with overflow")
                  /\ UNCHANGED <<index, pixels, prev_pixel, i, written>>
             ELSE /\ pixels' = r.pixels
                  /\ prev_pixel' = r.prev_pixel
                  /\ i' = i + r.n
                  /\ index' = update_index(index, r.prev_pixel)
                  /\ written' = written \cup {hash(r.prev_pixel)}
                  /\ UNCHANGED <<pc, result>>
        /\ UNCHANGED <<buffer, overflow_checks, width, height, data, capacity>>

OpRGB ==
    /\ Dispatched("RGB")
    /\ Exec("RGB")

OpRGBA ==
    /\ Dispatched("RGBA")
    /\ Exec("RGBA")

OpINDEX ==
    /\ Dispatched("INDEX")
    /\ Exec("INDEX")

OpDIFF ==
    /\ Dispatched("DIFF")
    /\ Exec("DIFF")

OpLUMA ==
    /\ Dispatched("LUMA")
    /\ Exec("LUMA")

OpRUN ==
    /\ Dispatched("RUN")
    /\ Exec("RUN")

\* line 60-61: the end marker lies at the cursor
EndMarker ==
    /\ pc = "loop"
    /\ i < Len(data)
    /\ at_end_marker(data, i)
    /\ pc' = "after"
    /\ reads' = reads \cup marker_reads(data, i)
    /\ last' = [op |-> "END", at |-> i, prev |-> prev_pixel, len |-> Len(pixels),
                fresh |-> FALSE, ok |-> TRUE, ovf |-> FALSE, n |-> last.n + 1]
    /\ UNCHANGED <<buffer, overflow_checks, width, height, data, capacity, index,
                   pixels, prev_pixel, i, result, written>>

\* line 59: the payload is exhausted
LoopExit ==
    /\ pc = "loop"
    /\ i >= Len(data)
    /\ pc' = "after"
    /\ UNCHANGED <<buffer, overflow_checks, width, height, data, capacity, index,
                   pixels, prev_pixel, i, result, reads, written, last>>

-----------------------------------------------------------------------------
(* decode_pixels, lines 104-111: the length check *)

\* the size of usize in bytes (a 64-bit target)
USIZE_BYTES == 8

as_usize(a) == a \o Zeros(USIZE_BYTES - Len(a))

\* (file.width as usize) * (file.height as usize) * 4 (line 104)
expected_len(w, h) ==
    LET m1 == MulWidth(as_usize(w), as_usize(h), USIZE_BYTES)
        m2 == MulWidth(m1.val, ToLimbs(4, USIZE_BYTES), USIZE_BYTES)
    IN  [val |-> m2.val, ovf |-> m1.ovf \/ m2.ovf]

\* lines 105-111, given the value of expected_len
check_length(px, e) ==
    LET n == ToLimbs(Len(px), USIZE_BYTES)
        t == IF LimbsLess(e, n) THEN SubSeq(px, 1, LimbsToInt(e)) ELSE px
    IN  IF ToLimbs(Len(t), USIZE_BYTES) # e
        THEN [res |-> Err("Pixel data length mismatch"), pixels |-> t]
        ELSE [res |-> Ok(t), pixels |-> t]

Finish ==
    /\ pc = "after"
    /\ pc' = "done"
    /\ \E e \in {expected_len(width, height)} :
         IF e.ovf /\ overflow_checks
         THEN /\ result' = Panic("attempt to multiply with overflow")
              /\ UNCHANGED pixels
         ELSE LET c == check_length(pixels, e.val) IN
              /\ result' = c.res
              /\ pixels' = c.pixels
    /\ UNCHANGED <<buffer, overflow_checks, width, height, data, capacity, index,
                   prev_pixel, i, reads, written, last>>

-----------------------------------------------------------------------------

Next ==
    \/ QOI_new
    \/ decode_begin
    \/ OpRGB
    \/ OpRGBA
    \/ OpINDEX
    \/ OpDIFF
    \/ OpLUMA
    \/ OpRUN
    \/ EndMarker
    \/ LoopExit
    \/ Finish

Spec == Init /\ [][Next]_vars

\* The program as one sequential thread whose enabled step is eventually
\* taken, run on the well-formed headers of two sizes with every payload.
LiveFiles ==
    { Header(MAGIC, d) \o p :
        d \in { <<<<0, 0, 0, 1>>, <<0, 0, 0, 1>>>>,
                 <<<<128, 0, 0, 0>>, <<128, 0, 0, 0>>>> },
        p \in Payloads(MaxChunks) }

InitLive == InitWith(LiveFiles)

SpecLive == InitLive /\ [][Next]_vars /\ WF_vars(Next)

-----------------------------------------------------------------------------
(* Specifications for the DIFF and the LUMA handler: the program run on    *)
(* files whose payload sets a previous pixel with one RGBA instruction     *)
(* and then holds one DIFF or one LUMA instruction.                        *)

\* channel values around the ends and the middle of the range of a u8
ChanVals == <<0, 1, 2, 3, 100, 127, 128, 252, 253, 254, 255>>

Chan(k) == ChanVals[((k - 1) % Len(ChanVals)) + 1]

PrevPixels ==
    { <<Chan(k), Chan(k + 4), Chan(k + 8), a>> :
        k \in 1..Len(ChanVals), a \in {0, 40, 255} }
    \cup { <<100, 100, 100, 255>> }

DiffFiles ==
    { Header(MAGIC, <<<<0, 0, 0, 1>>, <<0, 0, 0, 1>>>>) \o <<255>> \o q \o <<b>> :
        q \in PrevPixels, b \in 64..127 }

\* every first byte; second bytes rrrrbbbb with bbbb = rrrr or bbbb = 15 - rrrr
LumaPairs ==
    { <<g, 16 * r + b>> : g \in 128..191, r \in 0..15, b \in 0..15 }

LumaPixels ==
    { <<0, 0, 0, 255>>, <<255, 255, 255, 40>>, <<100, 150, 200, 0>>,
      <<128, 127, 1, 255>> }

LumaFiles ==
    { Header(MAGIC, <<<<0, 0, 0, 1>>, <<0, 0, 0, 1>>>>) \o <<255>> \o q \o l :
        q \in LumaPixels,
        l \in { m \in LumaPairs : m[2] % 16 \in {m[2] \div 16, 15 - (m[2] \div 16)} } }

InitDiff == InitWith(DiffFiles)

NextDiff ==
    \/ QOI_new
    \/ decode_begin
    \/ OpRGBA
    \/ OpDIFF
    \/ LoopExit
    \/ Finish

SpecDiff == InitDiff /\ [][NextDiff]_vars

InitLuma == InitWith(LumaFiles)

NextLuma ==
    \/ QOI_new
    \/ decode_begin
    \/ OpRGBA
    \/ OpLUMA
    \/ LoopExit
    \/ Finish

SpecLuma == InitLuma /\ [][NextLuma]_vars

-----------------------------------------------------------------------------
(* Specification for the dispatch: the program run on 1 x 1 files whose    *)
(* payload starts with any byte value, followed by four operand bytes.     *)

OpcodeFiles ==
    { Header(MAGIC, <<<<0, 0, 0, 1>>, <<0, 0, 0, 1>>>>) \o <<b, 1, 2, 3, 4>> :
        b \in 0..255 }

InitOpcode == InitWith(OpcodeFiles)

NextOpcode ==
    \/ QOI_new
    \/ decode_begin
    \/ OpRGB
    \/ OpRGBA
    \/ OpINDEX
    \/ OpDIFF
    \/ OpLUMA
    \/ OpRUN
    \/ LoopExit
    \/ Finish

SpecOpcode == InitOpcode /\ [][NextOpcode]_vars

-----------------------------------------------------------------------------
(* The properties *)

\* the mathematical value of W * H * 4, 9 limbs
ExactSize(w, h) == MulLimbs(MulLimbs(w, h), <<4>>)

\* the pixel the output holds at byte offset k
PixelAt(px, k) == SubSeq(px, k + 1, k + 4)

\* the 8 bytes of the end marker lie at offset k of the payload
MarkerAt(k) ==
    k + 8 <= Len(data) /\ SubSeq(data, k + 1, k + 8) = <<0, 0, 0, 0, 0, 0, 0, 1>>

\* the state right after a loop iteration that executed an instruction of kind op
After(op) == pc = "loop" /\ last.op = op /\ last.ok

\* the decode was aborted with the error msg and returns no buffer
Aborted(msg) == pc' = "done" /\ result' = [kind |-> "Err", msg |-> msg, buf |-> <<>>]

\* C1: whenever decode_pixels returns success, the returned buffer has exactly
\* W * H * 4 bytes, W and H being the header's width and height.
C1_SuccessHasExactLength ==
    result.kind = "Ok" => ToLimbs(Len(result.buf), 9) = ExactSize(width, height)

\* C2: an RGB instruction sets previous_pixel to (R, G, B, A) with A the alpha
\* previous_pixel had immediately before the instruction.
C2_RgbKeepsAlpha ==
    After("RGB") =>
        prev_pixel = <<At(data, last.at + 1), At(data, last.at + 2),
                       At(data, last.at + 3), last.prev[4]>>

\* C3: when the 8 bytes at the cursor are the end marker the loop stops: no
\* opcode is executed, no pixel is emitted, previous_pixel and the cache stay
\* as they are, and from then on no further byte of the payload is read.
C3_MarkerStopsLoop ==
    [][ /\ (pc = "loop" /\ MarkerAt(i)) =>
              /\ pc' = "after"
              /\ i' = i
              /\ pixels' = pixels
              /\ prev_pixel' = prev_pixel
              /\ index' = index
              /\ result' = result
              /\ reads' \subseteq 0..(i + 7)
        /\ (pc = "after" /\ MarkerAt(i)) =>
              /\ pc' = "done"
              /\ i' = i
              /\ Len(pixels') <= Len(pixels)
              /\ prev_pixel' = prev_pixel
              /\ index' = index
              /\ reads' = reads ]_vars

C3_Witness ==
    /\ pc = "done"
    /\ last.op = "END"
    /\ last.at + 8 < Len(data)
    /\ reads = 0..7
    /\ result.kind = "Ok"

\* C4: once the loop has ended, the result is success with the first W * H * 4
\* emitted bytes if at least W * H * 4 bytes were emitted, and the
\* length-mismatch error otherwise.
C4_LengthCheck ==
    [][ pc = "after" =>
          IF ~LimbsLess(ToLimbs(Len(pixels), 9), ExactSize(width, height))
          THEN result' = Ok(SubSeq(pixels, 1, LimbsToInt(ExactSize(width, height))))
          ELSE result' = Err("Pixel data length mismatch") ]_vars

\* C5: an RGB opcode fails with the truncated-chunk error exactly when fewer
\* than 3 bytes remain after it, an RGBA opcode exactly when fewer than 4 remain,
\* a LUMA opcode exactly when no second byte remains; otherwise the instruction
\* succeeds and consumes 4, 5 and 2 bytes.  A failure aborts the decode and no
\* pixel buffer is returned.
C5_TruncatedChunk ==
    [][ (pc = "loop" /\ i < Len(data) /\ ~MarkerAt(i)) =>
          LET b == At(data, i)
              rem == Len(data) - i - 1
          IN  /\ b = 254 =>
                    IF rem < 3 THEN Aborted("Unexpected end of file for QOI_OP_RGB")
                    ELSE pc' = "loop" /\ i' = i + 4 /\ result' = result
              /\ b = 255 =>
                    IF rem < 4 THEN Aborted("Unexpected end of file for QOI_OP_RGBA")
                    ELSE pc' = "loop" /\ i' = i + 5 /\ result' = result
              /\ b \in 128..191 =>
                    IF rem < 1 THEN Aborted("Unexpected end of file for QOI_OP_LUMA")
                    ELSE pc' = "loop" /\ i' = i + 2 /\ result' = result ]_vars

C5_Witness ==
    /\ pc = "done"
    /\ result = Err("Unexpected end of file for QOI_OP_RGBA")
    /\ last.op = "RGBA"
    /\ Len(data) - last.at - 1 = 3

\* the engine never ran: nothing was emitted, no instruction was executed and
\* no payload byte was read
NeverStarted == pixels = <<>> /\ last = NoInstr /\ reads = {} /\ data = <<>>

\* the value of the big-endian 32-bit field b0 b1 b2 b3, for b0 < 128
BigEndian(b0, b1, b2, b3) == b0 * 16777216 + b1 * 65536 + b2 * 256 + b3

\* limbs d hold the big-endian 32-bit value of the bytes at offsets k..k+3
IsField(d, buf, k) ==
    /\ d = <<At(buf, k + 3), At(buf, k + 2), At(buf, k + 1), At(buf, k)>>
    /\ At(buf, k) < 128 =>
          LimbsToInt(d) = BigEndian(At(buf, k), At(buf, k + 1), At(buf, k + 2),
                                    At(buf, k + 3))

\* C6: the parser fails with the truncated-header error for every input shorter
\* than 14 bytes, with the invalid-magic error for every input of at least 14
\* bytes that does not start with 'q','o','i','f', in both cases without the
\* engine being started; otherwise width and height are the big-endian values
\* of bytes 4..7 and 8..11 and the payload is the bytes from offset 14 on.
C6_HeaderParser ==
    pc # "new" =>
        IF Len(buffer) < 14
        THEN pc = "done" /\ result = Err("File too small") /\ NeverStarted
        ELSE IF <<At(buffer, 0), At(buffer, 1), At(buffer, 2), At(buffer, 3)>>
                    # <<113, 111, 105, 102>>
        THEN pc = "done" /\ result = Err("Invalid magic number") /\ NeverStarted
        ELSE /\ result.msg \notin {"File too small", "Invalid magic number"}
             /\ IsField(width, buffer, 4)
             /\ IsField(height, buffer, 8)
             /\ data = SubSeq(buffer, 15, Len(buffer))

C6_Witness ==
    /\ pc = "done"
    /\ Len(buffer) = 13
    /\ At(buffer, 3) = 103
    /\ result = Err("File too small")

\* C7: an INDEX instruction naming a cache slot that no earlier instruction of
\* this decode has written sets previous_pixel to (0,0,0,0) and emits the
\* pixel (0,0,0,0).
C7_FreshIndexIsZero ==
    (After("INDEX") /\ last.fresh) =>
        /\ prev_pixel = <<0, 0, 0, 0>>
        /\ Len(pixels) = last.len + 4
        /\ PixelAt(pixels, last.len) = <<0, 0, 0, 0>>

C7_Witness ==
    /\ After("INDEX")
    /\ last.fresh
    /\ written # {}
    /\ At(data, last.at) = 53
    /\ last.prev # <<0, 0, 0, 255>>

\* C8: a DIFF byte 01rrggbb turns the previous pixel (r,g,b,a) into
\* ((r + rr - 2) mod 256, (g + gg - 2) mod 256, (b + bb - 2) mod 256, a): the
\* channels wrap and do not saturate, alpha is unchanged, one pixel is emitted
\* and one byte is consumed.
C8_Diff ==
    (pc = "loop" /\ last.op = "DIFF") =>
        LET b  == At(data, last.at)
            rr == (b \div 16) % 4
            gg == (b \div 4) % 4
            bb == b % 4
            p  == last.prev
        IN  /\ last.ok
            /\ prev_pixel = <<(p[1] + rr - 2 + 256) % 256, (p[2] + gg - 2 + 256) % 256,
                              (p[3] + bb - 2 + 256) % 256, p[4]>>
            /\ (p[1] = 0 /\ rr = 0) => prev_pixel[1] = 254
            /\ (p = <<100, 100, 100, 255>> /\ b = 121) =>
                  prev_pixel = <<101, 100, 99, 255>>
            /\ Len(pixels) = last.len + 4
            /\ PixelAt(pixels, last.len) = prev_pixel
            /\ i = last.at + 1

C8_Witness ==
    /\ After("DIFF")
    /\ last.prev = <<0, 100, 253, 40>>
    /\ At(data, last.at) = 64
    /\ prev_pixel = <<254, 98, 251, 40>>

\* C9: a LUMA byte pair (10gggggg, rrrrbbbb) turns the previous pixel (r,g,b,a)
\* into ((r + dr) mod 256, (g + dg) mod 256, (b + db) mod 256, a) with
\* dg = gggggg - 32, dr = dg + rrrr - 8, db = dg + bbbb - 8; the signed 8-bit
\* sums never overflow; with the fields at their bias the pixel is unchanged;
\* alpha is unchanged and two bytes are consumed.
C9_Luma ==
    (pc # "new" /\ last.op = "LUMA") =>
        LET b1 == At(data, last.at)
            b2 == At(data, last.at + 1)
            dg == (b1 % 64) - 32
            dr == dg + (b2 \div 16) - 8
            db == dg + (b2 % 16) - 8
            p  == last.prev
        IN  /\ last.ok
            /\ ~last.ovf
            /\ result.kind # "Panic"
            /\ pc = "loop" =>
                  /\ prev_pixel = <<(p[1] + dr + 256) % 256, (p[2] + dg + 256) % 256,
                                    (p[3] + db + 256) % 256, p[4]>>
                  /\ (b1 = 160 /\ b2 = 136) => prev_pixel = p
                  /\ Len(pixels) = last.len + 4
                  /\ PixelAt(pixels, last.len) = prev_pixel
                  /\ i = last.at + 2

C9_Witness ==
    /\ After("LUMA")
    /\ At(data, last.at) = 128
    /\ At(data, last.at + 1) = 15
    /\ last.prev = <<0, 0, 0, 255>>
    /\ prev_pixel = <<216, 224, 231, 255>>

\* C10: a RUN with 6-bit field l appends exactly l + 1 copies of previous_pixel,
\* leaves previous_pixel unchanged and consumes one byte; the byte 0b11000000
\* appends exactly one copy.  The bytes 0xFE and 0xFF are never executed as a
\* RUN, so a run is 1 to 62 pixels long.
C10_Run ==
    /\ After("RUN") =>
          LET l == At(data, last.at) % 64
          IN  /\ Len(pixels) = last.len + 4 * (l + 1)
              /\ \A k \in 0..l : PixelAt(pixels, last.len + 4 * k) = last.prev
              /\ At(data, last.at) = 192 => Len(pixels) = last.len + 4
              /\ prev_pixel = last.prev
              /\ i = last.at + 1
              /\ l + 1 \in 1..62
    /\ (last.op \notin {"none", "END"} /\ At(data, last.at) \in {254, 255}) =>
          last.op # "RUN"

C10_Witness ==
    /\ After("RUN")
    /\ At(data, last.at) = 253
    /\ last.prev # <<0, 0, 0, 255>>
    /\ Len(pixels) = last.len + 248

\* the file of the end-to-end scenario: 1 x 1, one RGBA instruction, the marker
RgbaScenario ==
    <<113, 111, 105, 102, 0, 0, 0, 1, 0, 0, 0, 1, 4, 0,
      255, 10, 20, 30, 40, 0, 0, 0, 0, 0, 0, 0, 1>>

\* C11: an RGBA instruction with at least 4 bytes after the opcode sets
\* previous_pixel to the literal (R,G,B,A), emits that one pixel and consumes 5
\* bytes; the 1 x 1 file with payload [0xFF,10,20,30,40, marker] decodes to
\* [10,20,30,40], the loop ending at the marker.
C11_Rgba ==
    /\ (last.op = "RGBA" /\ Len(data) - last.at - 1 >= 4) =>
          LET q == <<At(data, last.at + 1), At(data, last.at + 2),
                     At(data, last.at + 3), At(data, last.at + 4)>>
          IN  /\ last.ok
              /\ pc = "loop" =>
                    /\ prev_pixel = q
                    /\ Len(pixels) = last.len + 4
                    /\ PixelAt(pixels, last.len) = q
                    /\ i = last.at + 5
    /\ (buffer = RgbaScenario /\ pc = "done") =>
          /\ result = [kind |-> "Ok", msg |-> "", buf |-> <<10, 20, 30, 40>>]
          /\ last.op = "END"
          /\ last.at = 5

C11_Witness ==
    /\ buffer = RgbaScenario
    /\ pc = "done"
    /\ result.buf = <<10, 20, 30, 40>>
    /\ prev_pixel = <<10, 20, 30, 40>>

\* C12: in every state of the decode loop in which a pixel has been emitted,
\* previous_pixel is the last 4 bytes of the output (before its truncation);
\* every copy a RUN appended is previous_pixel too.
C12_PrevIsLastEmitted ==
    (pc \in {"loop", "after"} /\ Len(pixels) > 0) =>
        /\ Len(pixels) >= 4
        /\ PixelAt(pixels, Len(pixels) - 4) = prev_pixel
        /\ last.op = "RUN" =>
              \A k \in 1..((Len(pixels) - last.len) \div 4) :
                  PixelAt(pixels, Len(pixels) - 4 * k) = prev_pixel

C12_Witness ==
    /\ pc = "loop"
    /\ last.op = "RUN"
    /\ last.at > 0
    /\ Len(pixels) = last.len + 248
    /\ prev_pixel = <<5, 6, 7, 255>>
    /\ PixelAt(pixels, Len(pixels) - 4) = <<5, 6, 7, 255>>

\* the cache slot of a pixel: (r*3 + g*5 + b*7 + a*11) mod 64
SlotOf(p) == (3 * p[1] + 5 * p[2] + 7 * p[3] + 11 * p[4]) % 64

\* an instruction has been executed and the loop has not failed
Executed == pc \in {"loop", "after"} /\ (last.op \notin {"none", "END"} \/ last.n >= 2)

\* C13: after every successfully executed instruction the cache slot of the
\* current previous_pixel holds the current previous_pixel: the hash is taken
\* of the pixel as updated by the instruction.
C13_CacheHoldsPrev ==
    Executed => index[SlotOf(prev_pixel)] = prev_pixel

C13_Witness ==
    /\ After("DIFF")
    /\ last.at > 0
    /\ SlotOf(prev_pixel) # SlotOf(last.prev)
    /\ index[SlotOf(prev_pixel)] = prev_pixel
    /\ index[SlotOf(last.prev)] = last.prev

\* C14: each executed instruction writes the cache once, at the slot of the
\* resulting previous_pixel, and leaves the other 63 slots as they were, a RUN
\* of any length included; a failing instruction and the steps outside the loop
\* body do not write it.
C14_OneCacheWrite ==
    [][ /\ (pc = "loop" /\ pc' = "loop") =>
              /\ index'[SlotOf(prev_pixel')] = prev_pixel'
              /\ \A s \in 0..63 : s # SlotOf(prev_pixel') => index'[s] = index[s]
        /\ (pc \in {"loop", "after"} /\ pc' # "loop") => index' = index ]_vars

C14_Witness ==
    /\ After("RUN")
    /\ last.at > 0
    /\ Len(pixels) = last.len + 248
    /\ prev_pixel = <<10, 20, 30, 40>>
    /\ Cardinality({ s \in 0..63 : index[s] # <<0, 0, 0, 0>> }) = 1

\* the handler the claim assigns to an opcode byte
HandlerOf(b) ==
    CASE b = 254 -> "RGB"
      [] b = 255 -> "RGBA"
      [] b \in 0..63 -> "INDEX"
      [] b \in 64..127 -> "DIFF"
      [] b \in 128..191 -> "LUMA"
      [] b \in 192..253 -> "RUN"

\* C15: every opcode byte is dispatched to exactly one of the six handlers
\* (0xFE to RGB, 0xFF to RGBA, otherwise by its top two bits), so the
\* unknown-opcode error is unreachable; the INDEX handler is only called with a
\* value below 64, so its out-of-bounds error is unreachable too.
C15_Dispatch ==
    /\ (pc = "loop" /\ i < Len(data)) =>
          /\ opcode(At(data, i)) = HandlerOf(At(data, i))
          /\ Cardinality({ op \in {"RGB", "RGBA", "INDEX", "DIFF", "LUMA", "RUN"} :
                             ENABLED (Dispatched(op) /\ Exec(op)) }) = 1
    /\ last.op \notin {"none", "END"} => last.op = HandlerOf(At(data, last.at))
    /\ last.op = "INDEX" => At(data, last.at) < 64
    /\ result.msg # "Index out of bounds for QOI_OP_INDEX"
    /\ result.kind = "Err" =>
          result.msg \in { "File too small", "Invalid magic number",
                           "Unexpected end of file for QOI_OP_RGB",
                           "Unexpected end of file for QOI_OP_RGBA",
                           "Unexpected end of file for QOI_OP_LUMA",
                           "Pixel data length mismatch" }

C15_Witness ==
    /\ After("INDEX")
    /\ last.at = 0
    /\ At(data, 0) = 63
    /\ Len(pixels) = 4

\* C16: the decode loop terminates with a success or an error outcome; an
\* iteration that neither stops at the marker nor fails advances the cursor
\* by 1, 2, 4 or 5 bytes, so there are at most as many iterations as the
\* payload has bytes.
C16_Terminates ==
    /\ [][ (pc = "loop" /\ pc' = "loop") =>
              /\ i' - i \in {1, 2, 4, 5}
              /\ last'.n = last.n + 1 ]_vars
    /\ [](last.n <= Len(data))
    /\ (pc = "loop") ~> (pc = "done" /\ result.kind \in {"Ok", "Err"})

C16_Witness ==
    /\ pc = "done"
    /\ result.kind = "Ok"
    /\ last.n = Len(data)
    /\ last.n = 2
    /\ i = Len(data)

\* C17: the cursor stays within 0..payload length, it is below the payload
\* length at the top of every executed loop body, and every offset read
\* (opcode, operands, the eight bytes compared with the marker) is below the
\* payload length.
C17_CursorInBounds ==
    /\ 0 <= i
    /\ i <= Len(data)
    /\ last.op # "none" => (0 <= last.at /\ last.at < Len(data))
    /\ \A k \in reads : 0 <= k /\ k < Len(data)

C17_Witness ==
    /\ After("RGBA")
    /\ i = Len(data)
    /\ last.at > 0
    /\ reads = 0..(Len(data) - 1)

\* C18: for every header the buffer size width * height * 4 of line 55 does
\* not overflow its 32-bit type and equals the expected length of line 104
\* computed in usize, so decode_pixels reaches its first loop iteration.
C18_BufferSizeExact ==
    [][ pc = "decode" =>
          /\ pc' = "loop"
          /\ capacity' \o Zeros(5) = ExactSize(width, height)
          /\ as_usize(capacity') = expected_len(width, height).val ]_vars

\* C19: every cache slot s holds the initial (0,0,0,0) or a pixel (r,g,b,a)
\* with (r*3 + g*5 + b*7 + a*11) mod 64 = s, so the pixel an INDEX
\* instruction with index k reads is (0,0,0,0) or hashes to k.
C19_SlotsHoldTheirHash ==
    /\ pc \in {"loop", "after", "done"} =>
          \A s \in 0..63 : index[s] = <<0, 0, 0, 0>> \/ SlotOf(index[s]) = s
    /\ After("INDEX") =>
          prev_pixel = <<0, 0, 0, 0>> \/ SlotOf(prev_pixel) = At(data, last.at)

C19_Witness ==
    /\ After("INDEX")
    /\ ~last.fresh
    /\ At(data, last.at) = 53
    /\ prev_pixel = <<0, 0, 0, 255>>
    /\ PixelAt(pixels, last.len) = <<0, 0, 0, 255>>

\* the number of operand bytes that follow an opcode byte
OperandsOf(op) ==
    CASE op = "RGB" -> 3
      [] op = "RGBA" -> 4
      [] op = "LUMA" -> 1

\* the 8 bytes of the end marker begin in one of the n bytes after offset k
MarkerInOperands(k, n) == \E j \in (k + 1)..(k + n) : MarkerAt(j)

\* C20: the end marker is recognised only at an instruction boundary.  When
\* its 8 bytes begin inside the operands of an RGB, RGBA or LUMA instruction,
\* the instruction consumes them as operands and emits its pixel, and the byte
\* after the operands is executed as an opcode; the payload
\* FF 00 00 00 00 00 00 00 01 is decoded as one RGBA and four INDEX
\* instructions.
C20_MarkerOnlyAtBoundary ==
    [][ /\ \A op \in {"RGB", "RGBA", "LUMA"} :
             /\ ( /\ pc = "loop"
                  /\ i < Len(data)
                  /\ HandlerOf(At(data, i)) = op
                  /\ MarkerInOperands(i, OperandsOf(op)) ) =>
                    /\ pc' = "loop"
                    /\ last'.op = op
                    /\ i' = i + 1 + OperandsOf(op)
                    /\ Len(pixels') = Len(pixels) + 4
                    /\ i..(i + OperandsOf(op)) \subseteq reads'
             /\ ( /\ After(op)
                  /\ MarkerInOperands(last.at, OperandsOf(op))
                  /\ i < Len(data) ) =>
                    /\ last'.at = i
                    /\ last'.op = HandlerOf(At(data, i))
                    /\ pc' # "after"
        /\ (data = <<255>> \o END_MARKER /\ pc = "loop" /\ pc' = "after") =>
              /\ last'.op = "INDEX"
              /\ last'.at = 8
              /\ last'.n = 5
              /\ Len(pixels') = 20 ]_vars

C20_Witness ==
    /\ pc = "done"
    /\ data = <<255, 0, 0, 0, 0, 0, 0, 0, 1>>
    /\ last.op = "INDEX"
    /\ last.at = 8
    /\ last.n = 5
    /\ result = [kind |-> "Ok", msg |-> "", buf |-> <<0, 0, 0, 0>>]

=============================================================================
